---- MODULE Spec2Model ----
(***************************************************************************)
(* envalidator (src/main.py): validation of a .env.example file against a  *)
(* .env file.  Files are sequences of one-character strings ("\n" ends a   *)
(* line); a missing file is NoFile.  Keys are sequences of characters.     *)
(***************************************************************************)
EXTENDS Integers, Sequences, FiniteSets, TLC

VARIABLES
    fs,            \* the file system: path -> content (or NoFile)
    args,          \* the parsed command line (init_parser)
    stdin,         \* the lines of standard input not yet read
    pc,            \* the statement the process is at
    env_keys,      \* result of get_env_keys(env_file_path) (main, line 22)
    example_keys,  \* result of get_env_keys(example_file_path) (main, line 25)
    missing_keys,  \* main's missing_keys (line 28)
    empty_keys,    \* result of find_empty_keys(env_file_path) (main, line 37)
    log,           \* the records handed to logging, in order
    err,           \* the exception that ended the process ("None": none)
    prompts,       \* the number of input() prompts confirm_action has issued
    ret,           \* the value confirm_action returned ("unset": none yet)
    runs,          \* the number of completed fix_missing_keys calls
    fs0,           \* history: the file system when the process started
    stdin0         \* history: standard input when the process started

vars == <<fs, args, stdin, pc, env_keys, example_keys, missing_keys,
          empty_keys, log, err, prompts, ret, runs, fs0, stdin0>>

----------------------------------------------------------------------------
(* Bounds of the model.                                                    *)

MaxLines == 2
MaxInputs == 2
MaxRuns == 2

----------------------------------------------------------------------------
(* Strings.                                                                *)

NoFile == <<"<missing>">>

IsSpace(c) == c \in {" ", "\n", "\t", "\r"}

RECURSIVE lstrip(_)
lstrip(s) ==
    IF s # <<>> /\ IsSpace(Head(s)) THEN lstrip(Tail(s)) ELSE s

RECURSIVE rstrip(_)
rstrip(s) ==
    IF s # <<>> /\ IsSpace(s[Len(s)]) THEN rstrip(SubSeq(s, 1, Len(s) - 1)) ELSE s

strip(s) == rstrip(lstrip(s))

\* str.find: the index of the first c in s, 0 when there is none
RECURSIVE find(_, _)
find(s, c) ==
    IF s = <<>> THEN 0
    ELSE IF Head(s) = c THEN 1
    ELSE LET i == find(Tail(s), c) IN IF i = 0 THEN 0 ELSE i + 1

\* line.split("=", 1): one part when the line holds no "=", else two
split(line) ==
    LET i == find(line, "=")
    IN  IF i = 0 THEN <<line>>
        ELSE <<SubSeq(line, 1, i - 1), SubSeq(line, i + 1, Len(line))>>

startswith(line, c) == line # <<>> /\ Head(line) = c

\* iteration over a text file: each line with its "\n"; a last line that is
\* not terminated is yielded as it stands
RECURSIVE readlines(_)
readlines(s) ==
    IF s = <<>> THEN <<>>
    ELSE LET i == find(s, "\n")
         IN  IF i = 0 THEN <<s>>
             ELSE <<SubSeq(s, 1, i)>> \o readlines(SubSeq(s, i + 1, Len(s)))

lowerchar(c) ==
    CASE c = "Y" -> "y" [] c = "E" -> "e" [] c = "S" -> "s"
      [] c = "N" -> "n" [] c = "O" -> "o" [] OTHER -> c

lower(s) == [i \in 1..Len(s) |-> lowerchar(s[i])]

exists(f, path) == f[path] # NoFile

----------------------------------------------------------------------------
(* Key extraction.                                                         *)

Result(exc, keys) == [exc |-> exc, keys |-> keys]

Unset == Result("unset", {})

\* the lines a reader keeps: trimmed, not blank, not a comment
DeclLines(content) ==
    LET ls == readlines(content)
    IN  {strip(ls[i]) : i \in {j \in 1..Len(ls) :
            strip(ls[j]) # <<>> /\ ~startswith(strip(ls[j]), "#")}}

get_env_keys(f, path) ==
    IF ~exists(f, path) THEN Result("FileNotFoundError", {})
    ELSE Result("None", {strip(split(line)[1]) : line \in DeclLines(f[path])})

get_missing_keys(source_keys, target_keys) == source_keys \ target_keys

find_empty_keys(f, path) ==
    IF ~exists(f, path) THEN Result("FileNotFoundError", {})
    ELSE IF \E line \in DeclLines(f[path]) : Len(split(line)) # 2
         THEN Result("ValueError", {})
    ELSE Result("None",
                {strip(split(line)[1]) : line \in
                    {l \in DeclLines(f[path]) : strip(split(l)[2]) = <<>>}})

----------------------------------------------------------------------------
(* Writing key lines.                                                      *)

\* the orders in which `for key in keys` may visit a set
Perms(S) ==
    {p \in [1..Cardinality(S) -> S] :
        \A i, j \in 1..Cardinality(S) : p[i] = p[j] => i = j}

\* file.write(f"{key}=\n") for each key of order
RECURSIVE KeyLines(_)
KeyLines(order) ==
    IF order = <<>> THEN <<>>
    ELSE Head(order) \o <<"=", "\n">> \o KeyLines(Tail(order))

write_keys(keys) == {KeyLines(p) : p \in Perms(keys)}

Marker ==
    <<"#", " ", "A", "d", "d", "e", "d", " ", "b", "y", " ",
      "e", "n", "v", "a", "l", "i", "d", "a", "t", "o", "r">>

Entry(level, msg, keys) == [level |-> level, msg |-> msg, keys |-> keys]

RECURSIVE AddedLog(_)
AddedLog(order) ==
    IF order = <<>> THEN <<>>
    ELSE <<Entry("INFO", "Added missing key", {Head(order)})>> \o AddedLog(Tail(order))

Outcome(exc, f, l) == [exc |-> exc, fs |-> f, log |-> l]

\* fix_missing_keys with the "\n" after the marker comment left out
fix_missing_keys_unterminated_marker(f, env_file_path, example_file_path) ==
    LET e == get_env_keys(f, env_file_path)
        x == get_env_keys(f, example_file_path)
        m == get_missing_keys(e.keys, x.keys)
    IN  IF e.exc # "None" THEN {Outcome(e.exc, f, <<>>)}
        ELSE IF x.exc # "None" THEN {Outcome(x.exc, f, <<>>)}
        ELSE IF m = {}
             THEN {Outcome("None", f, <<Entry("INFO", "No missing keys to add.", {})>>)}
        ELSE {Outcome("None",
                      [f EXCEPT ![example_file_path] =
                          @ \o <<"\n">> \o Marker \o KeyLines(p)],
                      AddedLog(p)) : p \in Perms(m)}

\* fix_missing_keys without the early return of lines 96-98
fix_missing_keys_unguarded(f, env_file_path, example_file_path) ==
    LET e == get_env_keys(f, env_file_path)
        x == get_env_keys(f, example_file_path)
        m == get_missing_keys(e.keys, x.keys)
    IN  IF e.exc # "None" THEN {Outcome(e.exc, f, <<>>)}
        ELSE IF x.exc # "None" THEN {Outcome(x.exc, f, <<>>)}
        ELSE {Outcome("None",
                      [f EXCEPT ![example_file_path] =
                          @ \o <<"\n">> \o Marker \o <<"\n">> \o KeyLines(p)],
                      AddedLog(p)) : p \in Perms(m)}

\* fix_missing_keys opening the example file with "w" instead of "a"
fix_missing_keys_truncating(f, env_file_path, example_file_path) ==
    LET e == get_env_keys(f, env_file_path)
        x == get_env_keys(f, example_file_path)
        m == get_missing_keys(e.keys, x.keys)
    IN  IF e.exc # "None" THEN {Outcome(e.exc, f, <<>>)}
        ELSE IF x.exc # "None" THEN {Outcome(x.exc, f, <<>>)}
        ELSE IF m = {}
             THEN {Outcome("None", f, <<Entry("INFO", "No missing keys to add.", {})>>)}
        ELSE {Outcome("None",
                      [f EXCEPT ![example_file_path] =
                          <<"\n">> \o Marker \o <<"\n">> \o KeyLines(p)],
                      AddedLog(p)) : p \in Perms(m)}

\* fix_missing_keys: the outcomes it may have (one per order of the missing keys)
fix_missing_keys(f, env_file_path, example_file_path) ==
    LET e == get_env_keys(f, env_file_path)
        x == get_env_keys(f, example_file_path)
        m == get_missing_keys(e.keys, x.keys)
    IN  IF e.exc # "None" THEN {Outcome(e.exc, f, <<>>)}
        ELSE IF x.exc # "None" THEN {Outcome(x.exc, f, <<>>)}
        ELSE IF m = {}
             THEN {Outcome("None", f, <<Entry("INFO", "No missing keys to add.", {})>>)}
        ELSE {Outcome("None",
                      [f EXCEPT ![example_file_path] =
                          @ \o <<"\n">> \o Marker \o <<"\n">> \o KeyLines(p)],
                      AddedLog(p)) : p \in Perms(m)}

\* the overwrite opening the env file with "a" instead of "w"
overwrite_env_file_appending(f, env_file_path, example_file_path) ==
    LET x == get_env_keys(f, example_file_path)
    IN  IF x.exc # "None"
        THEN {Outcome(x.exc, f, <<Entry("INFO", "Overwriting existing", {})>>)}
        ELSE {Outcome("None",
                      [f EXCEPT ![env_file_path] = @ \o t],
                      <<Entry("INFO", "Overwriting existing", {}),
                        Entry("INFO", "Initializing", {}),
                        Entry("INFO", "Initialized", {})>>) : t \in write_keys(x.keys)}

\* init_env_file from line 66 on (the file exists and the overwrite goes ahead)
overwrite_env_file(f, env_file_path, example_file_path) ==
    LET x == get_env_keys(f, example_file_path)
    IN  IF x.exc # "None"
        THEN {Outcome(x.exc, f, <<Entry("INFO", "Overwriting existing", {})>>)}
        ELSE {Outcome("None",
                      [f EXCEPT ![env_file_path] = t],
                      <<Entry("INFO", "Overwriting existing", {}),
                        Entry("INFO", "Initializing", {}),
                        Entry("INFO", "Initialized", {})>>) : t \in write_keys(x.keys)}

\* confirm_action's reading of one input line: "True", "False" or "again"
Yes == {<<"y">>, <<"y", "e", "s">>}
No == {<<"n">>, <<"n", "o">>, <<>>}

\* confirm_action without the default: an empty line asks again
confirm_choice_no_default(line) ==
    LET choice == strip(lower(line))
    IN  IF choice \in Yes THEN "True"
        ELSE IF choice \in No \ {<<>>} THEN "False"
        ELSE "again"

confirm_choice(line) ==
    LET choice == strip(lower(line))
    IN  IF choice \in Yes THEN "True"
        ELSE IF choice \in No THEN "False"
        ELSE "again"

----------------------------------------------------------------------------
(* The inputs the model draws from.                                        *)

EnvPath == <<".", "e", "n", "v">>
ExamplePath == <<".", "e", "n", "v", ".", "e", "x", "a", "m", "p", "l", "e">>
Paths == {EnvPath, ExamplePath}

SeqsUpTo(S, n) == UNION {[1..k -> S] : k \in 0..n}

RECURSIVE JoinLines(_)
JoinLines(ls) ==
    IF ls = <<>> THEN <<>> ELSE Head(ls) \o <<"\n">> \o JoinLines(Tail(ls))

\* every text of at most n lines of L, each line ended by "\n"
Terminated(L, n) == {JoinLines(ls) : ls \in SeqsUpTo(L, n)}

\* the same texts with the last "\n" left out
Unterminated(L, n) ==
    {SubSeq(t, 1, Len(t) - 1) : t \in Terminated(L, n) \ {<<>>}}

FileLines == {<<"A", "=", "1">>, <<"B", "=">>, <<"C">>}

EnvContents == Terminated(FileLines, MaxLines) \cup {NoFile}
ExampleContents ==
    Terminated(FileLines, MaxLines) \cup Unterminated(FileLines, MaxLines) \cup {NoFile}

Answers == {<<"y">>, <<"n">>, <<"x">>}
Streams == SeqsUpTo(Answers, MaxInputs)

Args(e, x, i, f, y) ==
    [env_file |-> e, example_file |-> x, init |-> i, fix |-> f, approve |-> y]

----------------------------------------------------------------------------
(* main(): one invocation of the tool.                                     *)

Init ==
    /\ \E i, f, y \in BOOLEAN :
         \/ /\ args = Args(EnvPath, ExamplePath, i, f, y)
            /\ \E ec \in EnvContents, xc \in ExampleContents :
                 fs = [p \in Paths |-> IF p = EnvPath THEN ec ELSE xc]
         \* both options name the same file
         \/ /\ args = Args(EnvPath, EnvPath, i, f, y)
            /\ \E ec \in EnvContents :
                 fs = [p \in Paths |-> IF p = EnvPath THEN ec ELSE NoFile]
    \* standard input is read under --init without --approve alone
    /\ IF args.init /\ ~args.approve THEN stdin \in Streams ELSE stdin = <<>>
    /\ pc = "init"
    /\ env_keys = Unset
    /\ example_keys = Unset
    /\ missing_keys = {}
    /\ empty_keys = Unset
    /\ log = <<>>
    /\ err = "None"
    /\ prompts = 0
    /\ ret = "unset"
    /\ runs = 0
    /\ fs0 = fs
    /\ stdin0 = stdin

locals == <<env_keys, example_keys, missing_keys, empty_keys>>
history == <<fs0, stdin0>>

\* an uncaught exception ends the process
Raise(exc) ==
    /\ err' = exc
    /\ pc' = "failed"

\* lines 66-73, then back in main at line 22
Overwrite ==
    \E o \in overwrite_env_file(fs, args.env_file, args.example_file) :
        /\ fs' = o.fs
        /\ log' = log \o o.log
        /\ IF o.exc # "None" THEN Raise(o.exc)
           ELSE pc' = "load_env" /\ err' = err

\* main lines 18-19 and init_env_file up to its confirmation (lines 58-63)
InitEnvFile ==
    /\ pc = "init"
    /\ IF ~args.init \/ ~exists(fs, args.env_file)
       THEN /\ pc' = "load_env"
            /\ UNCHANGED <<fs, log, err>>
       ELSE IF args.approve
       THEN Overwrite
       ELSE /\ pc' = "confirm"
            /\ UNCHANGED <<fs, log, err>>
    /\ UNCHANGED <<args, stdin, locals, prompts, ret, runs, history>>

\* one round of confirm_action's loop (lines 121-127): a prompt, then a
\* line of input, which decides the answer or asks again
ConfirmAction ==
    /\ pc = "confirm"
    /\ prompts' = prompts + 1
    /\ IF stdin = <<>>
       THEN /\ Raise("EOFError")
            /\ UNCHANGED <<stdin, ret>>
       ELSE /\ stdin' = Tail(stdin)
            /\ LET answer == confirm_choice(Head(stdin))
               IN  IF answer = "again"
                   THEN UNCHANGED <<pc, ret>>
                   ELSE ret' = answer /\ pc' = "confirmed"
            /\ err' = err
    /\ UNCHANGED <<fs, args, locals, log, runs, history>>

\* init_env_file with the test of confirm_action's answer inverted
InitEnvFileDecide_inverted ==
    /\ pc = "confirmed"
    /\ IF ret = "False" THEN Overwrite
       ELSE /\ log' = Append(log, Entry("INFO", "Initialization cancelled by user.", {}))
            /\ pc' = "load_env"
            /\ UNCHANGED <<fs, err>>
    /\ UNCHANGED <<args, stdin, locals, prompts, ret, runs, history>>

\* init_env_file once confirm_action has returned (lines 63-73)
InitEnvFileDecide ==
    /\ pc = "confirmed"
    /\ IF ret = "True" THEN Overwrite
       ELSE /\ log' = Append(log, Entry("INFO", "Initialization cancelled by user.", {}))
            /\ pc' = "load_env"
            /\ UNCHANGED <<fs, err>>
    /\ UNCHANGED <<args, stdin, locals, prompts, ret, runs, history>>

\* main line 22
LoadEnvKeys ==
    /\ pc = "load_env"
    /\ env_keys' = get_env_keys(fs, args.env_file)
    /\ IF env_keys'.exc # "None" THEN Raise(env_keys'.exc)
       ELSE pc' = "load_example" /\ err' = err
    /\ UNCHANGED <<fs, args, stdin, example_keys, missing_keys, empty_keys,
                   log, prompts, ret, runs, history>>

\* main lines 25-30
LoadExampleKeys ==
    /\ pc = "load_example"
    /\ example_keys' = get_env_keys(fs, args.example_file)
    /\ IF example_keys'.exc # "None"
       THEN /\ Raise(example_keys'.exc)
            /\ UNCHANGED <<missing_keys, log>>
       ELSE /\ missing_keys' = get_missing_keys(env_keys.keys, example_keys'.keys)
            /\ log' = IF missing_keys' # {}
                      THEN Append(log, Entry("WARNING", "Missing keys", missing_keys'))
                      ELSE log
            /\ pc' = "fix"
            /\ err' = err
    /\ UNCHANGED <<fs, args, stdin, env_keys, empty_keys, prompts, ret, runs, history>>

\* main lines 33-34
FixMissingKeys ==
    /\ pc = "fix"
    /\ IF ~args.fix
       THEN /\ pc' = "scan"
            /\ UNCHANGED <<fs, log, err, runs>>
       ELSE \E o \in fix_missing_keys(fs, args.env_file, args.example_file) :
                /\ fs' = o.fs
                /\ log' = log \o o.log
                /\ runs' = runs + 1
                /\ IF o.exc # "None" THEN Raise(o.exc)
                   ELSE pc' = "scan" /\ err' = err
    /\ UNCHANGED <<args, stdin, locals, prompts, ret, history>>

\* main lines 37-39
FindEmptyKeys ==
    /\ pc = "scan"
    /\ empty_keys' = find_empty_keys(fs, args.env_file)
    /\ IF empty_keys'.exc # "None"
       THEN /\ Raise(empty_keys'.exc)
            /\ log' = log
       ELSE /\ log' = IF empty_keys'.keys # {}
                      THEN Append(log, Entry("WARNING", "Keys with empty values",
                                             empty_keys'.keys))
                      ELSE log
            /\ pc' = "done"
            /\ err' = err
    /\ UNCHANGED <<fs, args, stdin, env_keys, example_keys, missing_keys,
                   prompts, ret, runs, history>>

Next ==
    \/ InitEnvFile
    \/ ConfirmAction
    \/ InitEnvFileDecide
    \/ LoadEnvKeys
    \/ LoadExampleKeys
    \/ FixMissingKeys
    \/ FindEmptyKeys

Spec == Init /\ [][Next]_vars

----------------------------------------------------------------------------
(* get_env_keys and find_empty_keys applied to one file.                   *)

ParseLines ==
    {<<>>, <<" ", "#", "c">>, <<"A", "=", "1">>, <<" ", "A", " ", "=", " ">>,
     <<"B", "=">>, <<"C">>, <<"=", "v">>, <<"A", "=", "x", "=", "y">>}

ParseContents ==
    Terminated(ParseLines, MaxLines) \cup Unterminated(ParseLines, MaxLines)
        \cup {NoFile}

Idle ==
    /\ args = Args(EnvPath, ExamplePath, FALSE, FALSE, FALSE)
    /\ env_keys = Unset
    /\ example_keys = Unset
    /\ missing_keys = {}
    /\ empty_keys = Unset
    /\ log = <<>>
    /\ err = "None"
    /\ prompts = 0
    /\ ret = "unset"
    /\ runs = 0

ParseInit ==
    /\ Idle
    /\ \E c \in ParseContents :
         fs = [p \in Paths |-> IF p = EnvPath THEN c ELSE NoFile]
    /\ pc = "parse"
    /\ stdin = <<>>
    /\ fs0 = fs
    /\ stdin0 = stdin

ParseFile ==
    /\ pc = "parse"
    /\ env_keys' = get_env_keys(fs, args.env_file)
    /\ empty_keys' = find_empty_keys(fs, args.env_file)
    /\ pc' = "parsed"
    /\ UNCHANGED <<fs, args, stdin, example_keys, missing_keys, log, err,
                   prompts, ret, runs, history>>

ParseNext == ParseFile

SpecParse == ParseInit /\ [][ParseNext]_vars

----------------------------------------------------------------------------
(* fix_missing_keys called repeatedly on the same two paths.               *)

FixLines == FileLines \cup {<<"#", "c">>, <<"=", "v">>}

FixContents ==
    Terminated(FixLines, MaxLines) \cup Unterminated(FixLines, MaxLines)
        \cup {NoFile}

FixInit ==
    /\ Idle
    /\ \E ec \in FixContents, xc \in FixContents :
         fs = [p \in Paths |-> IF p = EnvPath THEN ec ELSE xc]
    /\ pc = "fix"
    /\ stdin = <<>>
    /\ fs0 = fs
    /\ stdin0 = stdin

FixRun ==
    /\ pc = "fix"
    /\ runs < MaxRuns
    /\ \E o \in fix_missing_keys(fs, args.env_file, args.example_file) :
         /\ fs' = o.fs
         /\ log' = log \o o.log
         /\ err' = o.exc
    /\ runs' = runs + 1
    /\ UNCHANGED <<args, stdin, pc, locals, prompts, ret, history>>

FixNext == FixRun

SpecFix == FixInit /\ [][FixNext]_vars

----------------------------------------------------------------------------
(* confirm_action on its own, for every input stream.                      *)

ConfirmAnswers ==
    {<<>>, <<"y">>, <<"Y", "E", "S">>, <<" ", "N", "o", " ">>, <<"n">>,
     <<"x">>, <<"y", "e">>}

ConfirmStreams == SeqsUpTo(ConfirmAnswers, MaxInputs)

ConfirmInit ==
    /\ Idle
    /\ fs = [p \in Paths |-> NoFile]
    /\ pc = "confirm"
    /\ fs0 = fs
    /\ stdin0 \in ConfirmStreams
    /\ stdin = stdin0

ConfirmNext == ConfirmAction

\* a sequential process takes its next step: input() returns or raises
SpecConfirm == ConfirmInit /\ [][ConfirmNext]_vars /\ WF_vars(ConfirmNext)

----------------------------------------------------------------------------
(* Properties.                                                             *)

Range(q) == {q[i] : i \in 1..Len(q)}

LogHas(msg) == \E i \in 1..Len(log) : log[i].msg = msg

\* a line that is neither blank nor a comment and holds no "="
Malformed(line) ==
    /\ strip(line) # <<>>
    /\ ~startswith(strip(line), "#")
    /\ "=" \notin Range(line)

HasMalformedLine(content) ==
    content # NoFile /\ \E line \in Range(readlines(content)) : Malformed(line)

\* C1: get_env_keys fails with a parse error (Python's ValueError) on every
\* file that holds a line which is not blank, not a comment and has no "=";
\* it returns no key set for such a file.
C1_MalformedLineFails ==
    (pc = "parsed" /\ HasMalformedLine(fs[args.env_file]))
        => env_keys.exc = "ValueError"

\* C8: the keys find_empty_keys returns are keys get_env_keys returns, and
\* find_empty_keys returns a key set for every file for which get_env_keys
\* returns one.
C8_EmptyKeysWithinKeys ==
    pc = "parsed" =>
        /\ empty_keys.keys \subseteq env_keys.keys
        /\ (env_keys.exc = "None" => empty_keys.exc = "None")

\* the first half of C8 alone: the inclusion of the key sets
EmptyKeysSubset == pc = "parsed" => empty_keys.keys \subseteq env_keys.keys

\* the lines `key=` of a set of keys, each with its "\n"
KeyLineSet(keys) == {k \o <<"=", "\n">> : k \in keys}

\* content is one `key=` line for each key of keys, and nothing else
IsKeyFile(content, keys) ==
    /\ content # NoFile
    /\ Len(readlines(content)) = Cardinality(keys)
    /\ Range(readlines(content)) = KeyLineSet(keys)

\* C2: under --init with no env file, init_env_file creates the env file
\* with exactly one `key=` line per key of the example file, unprompted.
C2_InitCreatesMissingFile ==
    (/\ args.init
     /\ ~exists(fs0, args.env_file)
     /\ exists(fs0, args.example_file)
     /\ pc # "init")
        => /\ IsKeyFile(fs[args.env_file], get_env_keys(fs0, args.example_file).keys)
           /\ prompts = 0

\* C10: a --fix run (no --init, two distinct paths) that ends in a fatal
\* error has left the example file as it was at the start.
C10_FatalErrorBeforeAppend ==
    (/\ args.fix
     /\ ~args.init
     /\ args.env_file # args.example_file
     /\ pc = "failed")
        => fs[args.example_file] = fs0[args.example_file]

Accepted(line) == strip(lower(line)) \in Yes
Declined(line) == strip(lower(line)) \in No

Cancelled == Entry("INFO", "Initialization cancelled by user.", {})

\* C4: when the user declines the overwrite (n, no or an empty line),
\* confirm_action returns False, init_env_file writes nothing, logs the
\* cancellation, and main goes on at its next statement (line 22).
C4_DeclineLeavesFile ==
    [][/\ (pc = "confirm" /\ stdin # <<>> /\ Declined(Head(stdin)))
            => (pc' = "confirmed" /\ ret' = "False" /\ fs' = fs /\ log' = log)
       /\ (pc = "confirmed" /\ Declined(stdin0[prompts]))
            => /\ fs' = fs
               /\ log' = Append(log, Cancelled)
               /\ pc' = "load_env"
               /\ err' = "None"]_vars

C4_Witness ==
    /\ pc = "done"
    /\ Cancelled \in Range(log)
    /\ fs[args.env_file] # <<>>
    /\ fs = fs0

\* C5: when the env file exists and the overwrite goes ahead (--approve, with
\* no prompt at all, or a y/yes answer), the env file becomes exactly one
\* `key=` line per key of K = get_env_keys(example file) and nothing else,
\* so that get_env_keys and find_empty_keys of the env file both return K.
C5_OverwriteWritesKeys ==
    [][(/\ \/ pc = "init" /\ args.init /\ exists(fs, args.env_file) /\ args.approve
           \/ pc = "confirmed" /\ Accepted(stdin0[prompts])
        /\ exists(fs, args.example_file))
         => LET K == get_env_keys(fs, args.example_file).keys
            IN  /\ IsKeyFile(fs'[args.env_file], K)
                /\ get_env_keys(fs', args.env_file) = Result("None", K)
                /\ find_empty_keys(fs', args.env_file) = Result("None", K)
                /\ args.approve => prompts' = 0
                /\ \A p \in Paths \ {args.env_file} : fs'[p] = fs[p]]_vars

C5_Witness ==
    /\ LogHas("Initialized")
    /\ ret = "True"
    /\ fs0[args.env_file] # <<>>
    /\ Cardinality(get_env_keys(fs, args.env_file).keys) = 2
    /\ fs[args.env_file] # fs0[args.env_file]

\* the index of the first line of stream that confirm_action recognises
\* (0: none)
RECURSIVE FirstAnswer(_)
FirstAnswer(stream) ==
    IF stream = <<>> THEN 0
    ELSE IF Accepted(Head(stream)) \/ Declined(Head(stream)) THEN 1
    ELSE LET k == FirstAnswer(Tail(stream)) IN IF k = 0 THEN 0 ELSE k + 1

ConfirmDecided ==
    LET k == FirstAnswer(stdin0)
    IN  /\ pc = "confirmed" =>
            /\ k > 0
            /\ prompts = k
            /\ ret = IF Accepted(stdin0[k]) THEN "True" ELSE "False"
            /\ stdin = SubSeq(stdin0, k + 1, Len(stdin0))
        /\ pc = "failed" =>
            /\ k = 0
            /\ err = "EOFError"
            /\ prompts = Len(stdin0) + 1
        /\ pc = "confirm" =>
            /\ prompts < (IF k = 0 THEN Len(stdin0) + 1 ELSE k)
            /\ ret = "unset"

\* C9: confirm_action's result is decided by the first input line that is
\* y/yes (True) or n/no/empty (False), each earlier line causing one more
\* prompt; when the input ends before such a line it raises EOFError; and
\* it ends, one way or the other, on every finite input.
C9_ConfirmTerminates ==
    []ConfirmDecided /\ <>(pc \in {"confirmed", "failed"})

C9_Witness ==
    /\ pc = "failed"
    /\ err = "EOFError"
    /\ Len(stdin0) = MaxInputs
    /\ prompts = MaxInputs + 1

----------------------------------------------------------------------------
(* Properties of fix_missing_keys.                                         *)

BothExist(f) == exists(f, args.env_file) /\ exists(f, args.example_file)

MissingOf(f) ==
    IF BothExist(f)
    THEN get_env_keys(f, args.env_file).keys \ get_env_keys(f, args.example_file).keys
    ELSE {}

\* the number of marker comment lines of a text
MarkerCount(content) ==
    Cardinality({i \in 1..Len(readlines(content)) :
                    strip(readlines(content)[i]) = Marker})

\* C3 as stated: two runs in succession, keys missing before the first,
\* leave two more marker blocks in the example file.
C3_TwoRunsTwoBlocks ==
    (runs = 2 /\ MissingOf(fs0) # {})
        => MarkerCount(fs[args.example_file])
             = MarkerCount(fs0[args.example_file]) + 2

\* C3 as amended: the first run, keys missing, appends one marker block;
\* every later run finds no key missing and leaves both files as they are.
C3_SecondRunAppendsNothing ==
    [][/\ (runs = 0 /\ runs' = 1 /\ MissingOf(fs) # {})
            => /\ MarkerCount(fs'[args.example_file])
                    = MarkerCount(fs[args.example_file]) + 1
               /\ MissingOf(fs') = {}
       /\ (runs >= 1 /\ runs' = runs + 1 /\ MissingOf(fs0) # {})
            => fs' = fs]_vars

C3_Witness ==
    /\ runs = 2
    /\ MissingOf(fs0) # {}
    /\ MarkerCount(fs[args.example_file]) = MarkerCount(fs0[args.example_file]) + 1

\* C6: with every key of the env file present in the example file,
\* fix_missing_keys writes nothing: both files are as before.
C6_NoMissingNoWrite ==
    [][(/\ runs' = runs + 1
        /\ BothExist(fs)
        /\ get_env_keys(fs, args.env_file).keys
             \subseteq get_env_keys(fs, args.example_file).keys)
         => fs' = fs /\ err' = "None"]_vars

C6_Witness ==
    /\ runs = 1
    /\ BothExist(fs0)
    /\ MissingOf(fs0) = {}
    /\ get_env_keys(fs0, args.env_file).keys # {}
    /\ fs = fs0

\* what fix_missing_keys appends for the missing keys M: "\n", the marker
\* line, then one `key=` line per key of M
IsMarkerBlock(text, M) ==
    LET ls == readlines(text)
    IN  /\ Len(ls) = Cardinality(M) + 2
        /\ ls[1] = <<"\n">>
        /\ ls[2] = Marker \o <<"\n">>
        /\ {ls[i] : i \in 3..Len(ls)} = KeyLineSet(M)

EndsLine(text) == text = <<>> \/ text[Len(text)] = "\n"

\* C7 as stated: the old content stays as a prefix and is followed, line by
\* line, by a blank line, the marker line and one `key=` line per missing
\* key, whatever the old content (its last line terminated or not).
C7_BlankLineThenBlock ==
    [][(runs' = runs + 1 /\ MissingOf(fs) # {})
         => LET old == fs[args.example_file]
                new == fs'[args.example_file]
                n == Len(readlines(old))
                ls == readlines(new)
            IN  /\ SubSeq(new, 1, Len(old)) = old
                /\ Len(ls) = n + Cardinality(MissingOf(fs)) + 2
                /\ strip(ls[n + 1]) = <<>>
                /\ ls[n + 2] = Marker \o <<"\n">>
                /\ {ls[i] : i \in (n + 3)..Len(ls)} = KeyLineSet(MissingOf(fs))]_vars

\* C7 as amended: the old content stays as a prefix and is followed by one
\* "\n", the marker line and one `key=` line per missing key, nothing else;
\* the "\n" is a blank line when the old content is empty or ends with
\* "\n", and otherwise ends the old content's last line, the marker line
\* coming next with no blank line between.
C7_NewlineThenBlock ==
    [][(runs' = runs + 1 /\ MissingOf(fs) # {})
         => LET old == fs[args.example_file]
                new == fs'[args.example_file]
                n == Len(readlines(old))
                ls == readlines(new)
            IN  /\ SubSeq(new, 1, Len(old)) = old
                /\ IsMarkerBlock(SubSeq(new, Len(old) + 1, Len(new)), MissingOf(fs))
                /\ fs'[args.env_file] = fs[args.env_file]
                /\ IF EndsLine(old)
                   THEN ls[n + 1] = <<"\n">> /\ ls[n + 2] = Marker \o <<"\n">>
                   ELSE /\ ls[n] = readlines(old)[n] \o <<"\n">>
                        /\ ls[n + 1] = Marker \o <<"\n">>]_vars

C7_Witness ==
    /\ runs = 1
    /\ Cardinality(MissingOf(fs0)) = 2
    /\ ~EndsLine(fs0[args.example_file])
    /\ fs[args.example_file] # fs0[args.example_file]

====
